---- MODULE Spec2Model ----
(***************************************************************************)
(* Model of the plant monitor application (PlantMonitorApp and the helper  *)
(* functions of src/google_sheets_logger.py, lines 438-872).               *)
(*                                                                         *)
(* Threads of the program:                                                 *)
(*   - the Tk main thread (MainThread): video_loop, the button callbacks   *)
(*     (log_data_thread, recalibrate, toggle_scheduler, on_closing) and    *)
(*     the callbacks posted with window.after(0, ...);                     *)
(*   - scheduler threads (threads 1..MaxSchedThreads): scheduler_loop,     *)
(*     which calls log_data_thread on its own thread;                      *)
(*   - log workers: log_to_sheets_and_update_status, one per log action.   *)
(* Wall-clock time is abstracted: a sampling window ends, a wait times     *)
(* out, a sleep returns and a second ends nondeterministically.            *)
(* A widget call made by a thread other than the main thread takes effect *)
(* at once; after the window is destroyed it raises and ends the thread.   *)
(***************************************************************************)
EXTENDS Integers, Sequences, FiniteSets, Bags, TLC

(* ------------------------------ bounds -------------------------------- *)
\* Iterations of the 2-second sampling loop (about 20 in a real run).
MaxPolls == 2
\* Thread slots for scheduler threads (the program creates them on demand).
MaxSchedThreads == 2
\* Logging actions under way at the same time, from the trigger to the end
\* of the log worker (the program starts a thread for each on demand).
MaxInFlight == 2
\* Rows the sheet accepts before the append call fails (quota).
SheetCapacity == 2
\* Callbacks pending in the Tk event queue.
MaxAfter == 1
\* Length of the smoothing window (the source sets 30, line 583); scaled.
smoothing_window == 1
\* The smoothing window of the application in HistorySpec.
HistoryWindow == 3

(* -------------------------- program constants ------------------------- *)
REFERENCE_WIDTH_MM == 10
MIN_LEAF_AREA_PIXELS == 100
\* The HSV bounds of the two plant colour ranges (lines 462-469).
PLANT_LOWER_1 == << 0, 30, 30 >>
PLANT_UPPER_1 == << 40, 255, 200 >>
PLANT_LOWER_2 == << 0, 0, 0 >>
PLANT_UPPER_2 == << 0, 0, 0 >>

(* ----------------------------- rationals ------------------------------ *)
\* Python floats are modelled as exact fractions n/d with d > 0.
Rat(n, d) == [n |-> n, d |-> d]
RatZero == Rat(0, 1)
RatLess(a, b) == a.n * b.d < b.n * a.d
RatEq(a, b) == a.n * b.d = b.n * a.d
RECURSIVE Gcd(_, _)
Gcd(a, b) == IF b = 0 THEN a ELSE Gcd(b, a % b)
\* The same fraction in lowest terms, which keeps the integers small.
Reduced(a) == LET g == Gcd(a.n, a.d) IN Rat(a.n \div g, a.d \div g)
RatAdd(a, b) ==
    LET x == Reduced(a)
        y == Reduced(b)
    IN  Reduced(Rat(x.n * y.d + y.n * x.d, x.d * y.d))

(* ------------------------------ frames -------------------------------- *)
\* A frame is what the segmentation sees in it: the contours of the
\* reference colour (area, bounding width) and the patches of one colour
\* that are left of an eroded and dilated mask that selects them (area,
\* first and last row, HSV colour), both in extraction order.
RefContour(a, w) == [area |-> a, w |-> w]
Blob(a, t, b, hsv) == [area |-> a, top |-> t, bottom |-> b, hsv |-> hsv]
\* A patch of the olive colour of the leaves.
Contour(a, t, b) == Blob(a, t, b, << 20, 120, 120 >>)

FrameTable ==
    << [ref |-> << >>,
        plant |-> << Contour(100, 130, 139) >>],
       [ref |-> << RefContour(30, 6), RefContour(400, 20) >>,
        plant |-> << Contour(200, 10, 59), Contour(200, 40, 109) >>],
       [ref |-> << RefContour(400, 20) >>,
        plant |-> << Contour(400, 10, 109), Contour(100, 130, 139) >>],
       [ref |-> << >>,
        plant |-> << Contour(300, 20, 69) >>],
       [ref |-> << RefContour(1600, 40) >>,
        plant |-> << Contour(400, 10, 109) >>],
       [ref |-> << RefContour(400, 20) >>,
        plant |-> << Contour(400, 10, 109),
                     Blob(300, 120, 159, << 5, 200, 230 >>) >>] >>

Frames == 1 .. Len(FrameTable)
\* The frames the camera delivers in the model of the application.
CameraFrames == {1, 2}
\* A camera in front of an unchanging scene with the reference object in it.
SteadyScene == {2}
\* Python's None for current_frame_raw.
None == 0

(* ------------------------ pure functions ------------------------------ *)
RECURSIVE PyMaxScan(_, _, _)
\* Python's max(seq, key=...): the first element with the greatest key.
PyMaxScan(keys, i, best) ==
    IF i > Len(keys) THEN best
    ELSE PyMaxScan(keys, i + 1, IF RatLess(keys[best], keys[i]) THEN i ELSE best)

PyMaxIndex(keys) == PyMaxScan(keys, 2, 1)

RECURSIVE SumSeq(_)
SumSeq(s) == IF s = << >> THEN 0 ELSE Head(s) + SumSeq(Tail(s))

SetMin(S) == CHOOSE x \in S : \A y \in S : x <= y
SetMax(S) == CHOOSE x \in S : \A y \in S : x >= y

\* Line 526: the place of max(contours, key=cv2.contourArea).
RefIndex(contours) ==
    PyMaxIndex([i \in 1 .. Len(contours) |-> Rat(contours[i].area, 1)])

\* The ratio find_pixels_per_mm returns for the content of a frame: the
\* px/mm ratio of the largest reference contour, 0 when none is found.
pixels_per_mm_of(content) ==
    LET contours == content.ref
    IN  IF contours = << >> THEN RatZero
        ELSE LET ref_contour == contours[RefIndex(contours)]
                 width_in_pixels == ref_contour.w
             IN  IF width_in_pixels = 0 THEN RatZero
                 ELSE Rat(width_in_pixels, REFERENCE_WIDTH_MM)

\* Lines 530-531: find_pixels_per_mm draws a box of the colour (255, 0, 0),
\* two pixels thick, along the bounding rectangle of the reference contour
\* into the frame it was given. That colour lies inside the reference
\* range, and the line through column x + w lies outside the contour and
\* touches it: the contour the next extraction finds there is wider by the
\* columns the box adds (widen). Its area does not shrink, so it stays
\* the largest.
DrawRefBox(content, widen) ==
    IF content.ref = << >> THEN content
    ELSE LET k == RefIndex(content.ref)
         IN  [content EXCEPT !.ref[k] = RefContour(@.area, @.w + widen)]

\* find_pixels_per_mm of a frame the camera delivered.
find_pixels_per_mm(frame) == pixels_per_mm_of(FrameTable[frame])

\* np.all(v == 0).
AllZero(v) == \A i \in 1 .. Len(v) : v[i] = 0
\* cv2.inRange for one colour.
InRange(hsv, lower, upper) ==
    \A i \in 1 .. Len(hsv) : lower[i] <= hsv[i] /\ hsv[i] <= upper[i]

\* Line 546: the second range is used.
SecondRangeUsed(lower_2, upper_2) == ~AllZero(lower_2) /\ ~AllZero(upper_2)

\* Lines 543-550: the mask selects a colour.
InMask(hsv, lower_2, upper_2) ==
    \/ InRange(hsv, PLANT_LOWER_1, PLANT_UPPER_1)
    \/ SecondRangeUsed(lower_2, upper_2) /\ InRange(hsv, lower_2, upper_2)

\* Line 559: the contour is not noise.
ValidContour(c) == c.area > MIN_LEAF_AREA_PIXELS

\* find_plant_contours (lines 539-560) for the content of a frame and the
\* bounds of the second range.
valid_contours(content, lower_2, upper_2) ==
    SelectSeq(content.plant,
              LAMBDA c : InMask(c.hsv, lower_2, upper_2) /\ ValidContour(c))

\* find_plant_contours: the plant contours above the noise threshold.
find_plant_contours(frame) ==
    valid_contours(FrameTable[frame], PLANT_LOWER_2, PLANT_UPPER_2)

ZeroMetrics == [height |-> RatZero, count |-> 0, area |-> RatZero]

\* Mutant: the pixel area is divided by pixels_per_mm, not by its square.
MeasureFrameLinearArea(frame, ppm) ==
    LET plant_contours == find_plant_contours(frame)
        idx == 1 .. Len(plant_contours)
    IN  IF plant_contours = << >> THEN ZeroMetrics
        ELSE LET h_all == SetMax({plant_contours[i].bottom : i \in idx})
                          - SetMin({plant_contours[i].top : i \in idx}) + 1
                 total_leaf_area_pixels ==
                     SumSeq([i \in idx |-> plant_contours[i].area])
             IN  [height |-> Rat(h_all * ppm.d, ppm.n),
                  count |-> Len(plant_contours),
                  area |-> Rat(total_leaf_area_pixels * ppm.d, ppm.n)]

\* Mutant: the height is the sum of the heights of the contours' own boxes.
MeasureFrameSumHeights(frame, ppm) ==
    LET plant_contours == find_plant_contours(frame)
        idx == 1 .. Len(plant_contours)
    IN  IF plant_contours = << >> THEN ZeroMetrics
        ELSE LET h_sum == SumSeq([i \in idx |-> plant_contours[i].bottom
                                                 - plant_contours[i].top + 1])
                 total_leaf_area_pixels ==
                     SumSeq([i \in idx |-> plant_contours[i].area])
             IN  [height |-> Rat(h_sum * ppm.d, ppm.n),
                  count |-> Len(plant_contours),
                  area |-> Rat(total_leaf_area_pixels * ppm.d * ppm.d,
                               ppm.n * ppm.n)]

\* Section B of video_loop: the raw metrics of a frame under a scale.
MeasureFrame(frame, ppm) ==
    LET plant_contours == find_plant_contours(frame)
        idx == 1 .. Len(plant_contours)
    IN  IF plant_contours = << >> THEN ZeroMetrics
        ELSE LET h_all == SetMax({plant_contours[i].bottom : i \in idx})
                          - SetMin({plant_contours[i].top : i \in idx}) + 1
                 total_leaf_area_pixels ==
                     SumSeq([i \in idx |-> plant_contours[i].area])
             IN  [height |-> Rat(h_all * ppm.d, ppm.n),
                  count |-> Len(plant_contours),
                  area |-> Rat(total_leaf_area_pixels * ppm.d * ppm.d,
                               ppm.n * ppm.n)]

RECURSIVE RatSum(_)
\* The sum of a sequence of fractions.
RatSum(s) == IF s = << >> THEN RatZero ELSE RatAdd(Head(s), RatSum(Tail(s)))

\* np.mean over a non-empty sequence of floats.
RatMean(s) == LET total == RatSum(s) IN Rat(total.n, total.d * Len(s))

(* ------------------------------ threads ------------------------------- *)
\* The Tk main thread (window.mainloop()).
MainThread == -1
\* Scheduler threads are created by toggle_scheduler in free slots.
SchedThreads == 1 .. MaxSchedThreads
Threads == {MainThread} \cup SchedThreads
\* The thread a log worker runs on: one of its own, started for it.
OwnThread == 0

schedule_options == {"Off", "Every Second", "Every Minute", "Every Hour", "Every Day"}
\* interval_map.get(selected_option): seconds, 0 for Python's None.
interval_map(option) ==
    CASE option = "Every Second" -> 1
      [] option = "Every Minute" -> 60
      [] option = "Every Hour" -> 3600
      [] option = "Every Day" -> 86400
      [] OTHER -> 0
\* The options the operator picks in the model: with time abstracted every
\* option with an interval behaves as "Every Second".
SelectableOptions == {"Off", "Every Second"}

NoSample == << ZeroMetrics, None >>
\* The locals of log_data_thread before it runs.
FreshLocals == [all_measurements |-> << >>,
                best_measurement |-> NoSample,
                polls |-> 0]

VARIABLES
    calibrated,             \* self.calibrated
    pixels_per_mm,          \* self.pixels_per_mm
    current_frame_raw,      \* self.current_frame_raw (None or a frame)
    current_metrics,        \* self.current_metrics
    measurement_history,    \* self.measurement_history
    video_loop_scheduled,   \* window.after(10, self.video_loop) is pending
    status_label,           \* text of self.status_label
    schedule_var,           \* self.schedule_var
    scheduler_stop_event,   \* self.scheduler_stop_event is set
    scheduler_thread,       \* self.scheduler_thread (None or a thread)
    pc,                     \* where each thread is
    loc,                    \* the locals of log_data_thread, per thread
    workers,                \* the runs of log_to_sheets_and_update_status (a bag)
    after_queue,            \* callbacks posted with window.after(0, ...)
    sheet,                  \* rows of the Google sheet
    images,                 \* the file names in IMAGE_DIR, and the threads
                            \* inside a window during which a file was written
    closed,                 \* on_closing has destroyed the window
    logger_obj,             \* _logger_instance (None or a GoogleSheetsLogger)
    vision                  \* a frame and what the vision functions called
                            \* on it have returned (None in the application)

vars == << calibrated, pixels_per_mm, current_frame_raw, current_metrics,
           measurement_history, video_loop_scheduled, status_label, schedule_var,
           scheduler_stop_event, scheduler_thread, pc, loc, workers, after_queue,
           sheet, images, closed, logger_obj, vision >>

calibVars == << calibrated, pixels_per_mm >>
captureVars == << current_frame_raw, current_metrics, measurement_history,
                  video_loop_scheduled >>
schedVars == << schedule_var, scheduler_stop_event, scheduler_thread >>
logVars == << loc, workers, sheet, images >>

\* os.makedirs(IMAGE_DIR, exist_ok=True): nothing written yet.
NoImages == [names |-> {}, racing |-> {}]

\* The variables of PlantMonitorApp and of its threads.
appVars == << calibVars, captureVars, status_label, schedVars, pc, logVars,
              after_queue, closed >>

\* PlantMonitorApp.__init__, up to the first call of video_loop.
AppInit ==
    /\ calibrated = FALSE
    /\ pixels_per_mm = RatZero
    /\ current_frame_raw = None
    /\ current_metrics = ZeroMetrics
    /\ measurement_history = << >>
    /\ video_loop_scheduled = TRUE
    /\ status_label = "Status: Calibrating..."
    /\ schedule_var = "Off"
    /\ scheduler_stop_event = FALSE
    /\ scheduler_thread = None
    /\ pc = [t \in Threads |-> IF t = MainThread THEN "idle" ELSE "dead"]
    /\ loc = [t \in Threads |-> FreshLocals]
    /\ workers = EmptyBag
    /\ after_queue = << >>
    /\ sheet = << >>
    /\ images = NoImages
    /\ closed = FALSE

\* The program started: no GoogleSheetsLogger has been created (line 301).
Init == AppInit /\ logger_obj = None /\ vision = None

\* threading.Thread.is_alive() of a scheduler thread.
is_alive(t) == pc[t] # "dead"
\* self.scheduler_thread and self.scheduler_thread.is_alive()
SchedulerRunning == scheduler_thread # None /\ is_alive(scheduler_thread)

\* The main thread runs one callback at a time; a call made on the main
\* thread keeps it busy until the call returns.
MainIdle == pc[MainThread] = "idle" /\ \A w \in BagToSet(workers) :
                w.runs_on # MainThread

Goto(t, where) == pc' = [pc EXCEPT ![t] = where]

(* ----------------------------- video_loop ----------------------------- *)
\* Mutant: a failed read ends video_loop without scheduling the next call.
ReadFromGivingUp(scene) ==
    /\ MainIdle /\ video_loop_scheduled
    /\ \E ret \in BOOLEAN :
         IF ~ret
         THEN /\ status_label' = "Error: Webcam feed lost."
              /\ video_loop_scheduled' = FALSE
              /\ UNCHANGED << current_frame_raw, pc >>
         ELSE \E frame \in scene :
              /\ current_frame_raw' = frame
              /\ video_loop_scheduled' = FALSE
              /\ Goto(MainThread, "vl_calibrate")
              /\ UNCHANGED status_label
    /\ UNCHANGED << calibVars, current_metrics, measurement_history, schedVars,
                    logVars, after_queue, closed >>
    /\ UNCHANGED << logger_obj, vision >>

\* Lines 657-664: read a frame from a camera that delivers the frames of
\* scene; a failed read reschedules the loop.
ReadFrom(scene) ==
    /\ MainIdle /\ video_loop_scheduled
    /\ \E ret \in BOOLEAN :
         IF ~ret
         THEN /\ status_label' = "Error: Webcam feed lost."
              /\ UNCHANGED << current_frame_raw, video_loop_scheduled, pc >>
         ELSE \E frame \in scene :
              /\ current_frame_raw' = frame
              /\ video_loop_scheduled' = FALSE
              /\ Goto(MainThread, "vl_calibrate")
              /\ UNCHANGED status_label
    /\ UNCHANGED << calibVars, current_metrics, measurement_history, schedVars,
                    logVars, after_queue, closed >>
    /\ UNCHANGED << logger_obj, vision >>

VideoRead == ReadFrom(CameraFrames)

\* Mutant: a failed detection (0) counts as a calibration.
CalibrationFoundAlways(pixels_per_mm_found) == pixels_per_mm_found.n >= 0

\* Line 670: the calibration attempt succeeded.
CalibrationFound(pixels_per_mm_found) == pixels_per_mm_found.n > 0

\* Mutant: calibration runs on every cycle.
NeedsCalibrationAlways == TRUE

\* Line 668: calibration runs only while the lock is clear.
NeedsCalibration == ~calibrated

\* Lines 668-689, up to the assignment of self.pixels_per_mm.
VideoCalibrate ==
    /\ pc[MainThread] = "vl_calibrate"
    /\ IF NeedsCalibration
       THEN LET pixels_per_mm_found == find_pixels_per_mm(current_frame_raw)
            IN  IF CalibrationFound(pixels_per_mm_found)
                THEN /\ pixels_per_mm' = pixels_per_mm_found
                     /\ Goto(MainThread, "vl_lock")
                     /\ UNCHANGED status_label
                ELSE /\ status_label' =
                            IF ~SchedulerRunning
                            THEN "Status: Cannot find BLUE reference object."
                            ELSE status_label
                     /\ Goto(MainThread, "vl_measure")
                     /\ UNCHANGED pixels_per_mm
       ELSE /\ Goto(MainThread, "vl_measure")
            /\ UNCHANGED << pixels_per_mm, status_label >>
    /\ UNCHANGED << calibrated, captureVars, schedVars, logVars, after_queue, closed >>
    /\ UNCHANGED << logger_obj, vision >>

\* Lines 672-673: lock the calibration.
VideoLock ==
    /\ pc[MainThread] = "vl_lock"
    /\ calibrated' = TRUE
    /\ status_label' = "Status: Calibrated! Monitoring."
    /\ Goto(MainThread, "vl_measure")
    /\ UNCHANGED << pixels_per_mm, captureVars, schedVars, logVars, after_queue, closed >>
    /\ UNCHANGED << logger_obj, vision >>

\* Mutant: pop() instead of pop(0): the entry just appended is dropped.
PushHistoryDropNewest(history, m, window) ==
    LET appended == Append(history, m)
    IN  IF Len(appended) > window
        THEN SubSeq(appended, 1, Len(appended) - 1)
        ELSE appended

\* Lines 729-731: append to the history and evict the oldest entry.
PushHistory(history, m, window) ==
    LET appended == Append(history, m)
    IN  IF Len(appended) > window THEN Tail(appended) ELSE appended

\* Mutant: section B measures whatever the calibration state.
MeasuringAlways == TRUE

\* Line 694: only measure if calibration is successful.
Measuring == calibrated /\ pixels_per_mm.n > 0

\* Lines 692-753: measure, publish the raw metrics, smooth, reschedule, in
\* an application whose self.smoothing_window is window.
MeasureWith(window) ==
    /\ pc[MainThread] = "vl_measure"
    /\ LET measuring == Measuring
           metrics == IF measuring
                      THEN MeasureFrame(current_frame_raw, pixels_per_mm)
                      ELSE ZeroMetrics
       IN  /\ status_label' = IF measuring /\ ~SchedulerRunning
                              THEN "Status: Calibrated! Monitoring."
                              ELSE status_label
           /\ current_metrics' = metrics
           /\ measurement_history' =
                  PushHistory(measurement_history, metrics, window)
    /\ video_loop_scheduled' = TRUE
    /\ Goto(MainThread, "idle")
    /\ UNCHANGED << calibVars, current_frame_raw, schedVars, logVars, after_queue, closed >>
    /\ UNCHANGED << logger_obj, vision >>

VideoMeasure == MeasureWith(smoothing_window)

(* ----------------------------- recalibrate ---------------------------- *)
\* Line 650.
Recalibrate ==
    /\ MainIdle
    /\ calibrated' = FALSE
    /\ Goto(MainThread, "recal")
    /\ UNCHANGED << pixels_per_mm, captureVars, status_label, schedVars, logVars,
                    after_queue, closed >>
    /\ UNCHANGED << logger_obj, vision >>

\* Mutant: recalibrate leaves the history as it is.
ClearedHistoryKept == measurement_history

\* Line 654: self.measurement_history = [].
ClearedHistory == << >>

\* Lines 651-654.
RecalibrateReset ==
    /\ pc[MainThread] = "recal"
    /\ pixels_per_mm' = RatZero
    /\ status_label' = "Status: Recalibrating..."
    /\ measurement_history' = ClearedHistory
    /\ Goto(MainThread, "idle")
    /\ UNCHANGED << calibrated, current_frame_raw, current_metrics,
                    video_loop_scheduled, schedVars, logVars, after_queue,
                    closed >>
    /\ UNCHANGED << logger_obj, vision >>

(* --------------------------- log_data_thread -------------------------- *)
\* Where log_data_thread returns to: the Tk event loop, or line 854 of
\* scheduler_loop.
ReturnPc(t) == IF t = MainThread THEN "idle" ELSE "wait"

\* A widget call made by a thread other than the main thread after the
\* window was destroyed raises, which ends that thread.
UiRaises(t) == closed /\ t # MainThread

Post(callback) ==
    /\ Len(after_queue) < MaxAfter
    /\ after_queue' = Append(after_queue, callback)

PassPcs == {"ldt_window", "ldt_write"}
\* Thread t is inside the sampling pass of log_data_thread.
InPass(t) == pc[t] \in PassPcs
InFlightCount == Cardinality({t \in Threads : InPass(t)}) + BagCardinality(workers)

\* Mutant: the logging action does not check the calibration.
LogPreconditionNone == TRUE

\* Line 757: the precondition of a logging action.
LogPrecondition == calibrated

\* log_data_thread is called: by the LOG DATA button on the main thread
\* (line 613) or by scheduler_loop on a scheduler thread (line 853).
LogTriggered(t) ==
    \/ t = MainThread /\ MainIdle
    \/ t \in SchedThreads /\ pc[t] = "loop" /\ ~scheduler_stop_event

\* Lines 757-764: the calibration check and the start of the window.
LogDataBegin(t) ==
    /\ LogTriggered(t)
    /\ IF UiRaises(t)
       THEN Goto(t, "dead") /\ UNCHANGED << status_label, loc >>
       ELSE IF ~LogPrecondition
       THEN /\ status_label' = "Status: Please calibrate first!"
            /\ Goto(t, ReturnPc(t))
            /\ UNCHANGED loc
       ELSE /\ InFlightCount < MaxInFlight
            /\ status_label' = "Status: Analyzing for 2 seconds..."
            /\ loc' = [loc EXCEPT ![t] = FreshLocals]
            /\ Goto(t, "ldt_window")
    /\ UNCHANGED << calibVars, captureVars, schedVars, workers, sheet, images,
                    after_queue, closed >>
    /\ UNCHANGED << logger_obj, vision >>

\* Lines 767-773: the window is still open; copy the current metrics and
\* the current frame, append the candidate, sleep.
LogPoll(t) ==
    /\ pc[t] = "ldt_window"
    /\ loc[t].polls < MaxPolls
    /\ loc' = [loc EXCEPT
                 ![t].all_measurements =
                     IF current_frame_raw # None
                     THEN Append(@, << current_metrics, current_frame_raw >>)
                     ELSE @,
                 ![t].polls = @ + 1]
    /\ UNCHANGED << calibVars, captureVars, status_label, schedVars, pc, workers,
                    sheet, images, after_queue, closed >>
    /\ UNCHANGED << logger_obj, vision >>

\* Mutant: among candidates of equal greatest area, the last one wins.
BestMeasurementLast(all_measurements) ==
    all_measurements[
        CHOOSE i \in 1 .. Len(all_measurements) :
            /\ \A j \in 1 .. Len(all_measurements) :
                   ~RatLess(all_measurements[i][1].area, all_measurements[j][1].area)
            /\ \A j \in (i + 1) .. Len(all_measurements) :
                   RatLess(all_measurements[j][1].area, all_measurements[i][1].area)]

\* Line 780: max(all_measurements, key=lambda item: item[0]['area']).
BestMeasurement(all_measurements) ==
    all_measurements[PyMaxIndex([i \in 1 .. Len(all_measurements) |->
                                     all_measurements[i][1].area])]

\* Mutant: without the check of line 775, max() of an empty list raises
\* ValueError: the Tk callback is abandoned, a scheduler thread ends.
WindowFailsRaising(t) ==
    /\ UNCHANGED status_label
    /\ loc' = [loc EXCEPT ![t] = FreshLocals]
    /\ Goto(t, IF t = MainThread THEN "idle" ELSE "dead")

\* Lines 775-777: no candidate was collected; report and return.
WindowFails(t) ==
    /\ status_label' = "Status: Analysis failed (no frames)."
    /\ loc' = [loc EXCEPT ![t] = FreshLocals]
    /\ Goto(t, ReturnPc(t))

\* Lines 775-786: the window has elapsed; pick the best measurement. The
\* window is measured with time.time(): a thread that is held up for two
\* seconds after line 763, or a clock that is set forward, ends it before
\* the first candidate is collected.
LogWindowEnd(t) ==
    /\ pc[t] = "ldt_window"
    /\ IF UiRaises(t)
       THEN /\ Goto(t, "dead")
            /\ loc' = [loc EXCEPT ![t] = FreshLocals]
            /\ UNCHANGED status_label
       ELSE IF loc[t].all_measurements = << >>
       THEN WindowFails(t)
       ELSE /\ loc' = [loc EXCEPT ![t].best_measurement =
                                      BestMeasurement(loc[t].all_measurements)]
            /\ status_label' = "Status: Analysis complete. Logging data..."
            /\ Goto(t, "ldt_write")
    /\ UNCHANGED << calibVars, captureVars, schedVars, workers, sheet, images,
                    after_queue, closed >>
    /\ UNCHANGED << logger_obj, vision >>

\* Lines 788-789: plant_<%Y-%m-%d_%H-%M-%S>_best.jpg: the name is the second
\* in which line 788 runs, which the model does not count. A window lasts
\* two seconds, so only a file written while the window of the writing
\* thread was open can bear the name that thread is about to use:
\* images.racing holds the threads for which such a file exists.
ImageFilename == "plant_<now>_best.jpg"


\* Mutant: the sums are divided by the length of a full window.
WindowedAverageOfFull(history) ==
    IF history # << >>
    THEN LET idx == 1 .. Len(history)
             over(s) == Rat(RatSum(s).n, RatSum(s).d * HistoryWindow)
         IN  [height |-> over([i \in idx |-> history[i].height]),
              count |-> over([i \in idx |-> Rat(history[i].count, 1)]),
              area |-> over([i \in idx |-> history[i].area])]
    ELSE [height |-> RatZero, count |-> RatZero, area |-> RatZero]

\* Lines 733-738: the windowed average shown in the labels, before they
\* format it (two decimals, the count cut to an integer).
WindowedAverage(history) ==
    IF history # << >>
    THEN LET idx == 1 .. Len(history)
         IN  [height |-> RatMean([i \in idx |-> history[i].height]),
              count |-> RatMean([i \in idx |-> Rat(history[i].count, 1)]),
              area |-> RatMean([i \in idx |-> history[i].area])]
    ELSE [height |-> RatZero, count |-> RatZero, area |-> RatZero]

\* Mutant: the worker is handed the smoothed values shown on screen.
SpawnLogThreadSmoothed(t, best_metrics) ==
    LET avg == WindowedAverage(measurement_history)
    IN  [pc |-> "append", runs_on |-> 0,
         height |-> avg.height, count |-> avg.count.n \div avg.count.d,
         area |-> avg.area]

\* Mutant: log_to_sheets_and_update_status is called on the caller's thread.
SpawnLogInline(t, best_metrics) ==
    [pc |-> "append", runs_on |-> t,
     height |-> best_metrics.height, count |-> best_metrics.count,
     area |-> best_metrics.area]

\* Lines 793-801: the thread that runs log_to_sheets_and_update_status.
SpawnLogThread(t, best_metrics) ==
    [pc |-> "append", runs_on |-> OwnThread,
     height |-> best_metrics.height, count |-> best_metrics.count,
     area |-> best_metrics.area]

\* Line 812: the worker sleeps; its arguments are no longer used.
Sleeping == [pc |-> "sleep", runs_on |-> OwnThread, height |-> RatZero,
             count |-> 0, area |-> RatZero]
Started(w) == workers (+) SetToBag({w})
Ended(w) == workers (-) SetToBag({w})

\* Lines 788-801: write the image and start the log worker.
LogWrite(t) ==
    /\ pc[t] = "ldt_write"
    /\ images' = [names |-> images.names \cup {ImageFilename},
                  racing |-> (images.racing \ {t})
                                 \cup {u \in Threads \ {t} : InPass(u)}]
    /\ workers' = Started(SpawnLogThread(t, loc[t].best_measurement[1]))
    /\ loc' = [loc EXCEPT ![t] = FreshLocals]
    /\ Goto(t, ReturnPc(t))
    /\ UNCHANGED << calibVars, captureVars, status_label, schedVars, sheet,
                    after_queue, closed >>
    /\ UNCHANGED << logger_obj, vision >>

(* ------------------ log_to_sheets_and_update_status ------------------- *)
\* Mutant: a failed append is reported and then tried again.
WorkerAppendRetrying(w) ==
    /\ w.pc = "append" /\ BagIn(w, workers)
    /\ \E success \in BOOLEAN :
         LET rows == IF sheet = << >> THEN << "header", "data" >> ELSE << "data" >>
             logged == success /\ Len(sheet) + Len(rows) <= SheetCapacity
         IN  /\ success => logged
             /\ sheet' = IF logged THEN sheet \o rows ELSE sheet
             /\ IF closed
                THEN /\ workers' = Ended(w)
                     /\ UNCHANGED after_queue
                ELSE /\ Post(IF logged THEN "Status: Logged successfully!"
                             ELSE "Status: Logging FAILED. Check terminal.")
                     /\ workers' = IF logged THEN Ended(w) (+) SetToBag({Sleeping})
                                   ELSE workers
    /\ UNCHANGED << calibVars, captureVars, status_label, schedVars, pc, loc,
                    images, closed >>
    /\ UNCHANGED << logger_obj, vision >>

\* log_data (lines 481-510): the header row goes first on an empty sheet;
\* any exception is caught and reported as False.
WorkerAppend(w) ==
    /\ w.pc = "append" /\ BagIn(w, workers)
    /\ \E success \in BOOLEAN :
         LET rows == IF sheet = << >> THEN << "header", "data" >> ELSE << "data" >>
             logged == success /\ Len(sheet) + Len(rows) <= SheetCapacity
         IN  /\ success => logged
             /\ sheet' = IF logged THEN sheet \o rows ELSE sheet
             /\ IF closed
                THEN /\ workers' = Ended(w)
                     /\ UNCHANGED after_queue
                ELSE /\ Post(IF logged THEN "Status: Logged successfully!"
                             ELSE "Status: Logging FAILED. Check terminal.")
                     /\ workers' = Ended(w) (+) SetToBag({Sleeping})
    /\ UNCHANGED << calibVars, captureVars, status_label, schedVars, pc, loc,
                    images, closed >>
    /\ UNCHANGED << logger_obj, vision >>

\* Lines 812-814: after the sleep, restore the monitoring status.
WorkerWake(w) ==
    /\ w.pc = "sleep" /\ BagIn(w, workers)
    /\ IF ~SchedulerRunning /\ calibrated /\ ~closed
       THEN Post("Status: Calibrated! Monitoring.")
       ELSE UNCHANGED after_queue
    /\ workers' = Ended(w)
    /\ UNCHANGED << calibVars, captureVars, status_label, schedVars, pc, loc,
                    sheet, images, closed >>
    /\ UNCHANGED << logger_obj, vision >>

(* ------------------------------ scheduler ----------------------------- *)
\* Mutant: the toggle goes by the stop flag, not by the thread.
ToggleSeesRunningByFlag == scheduler_thread # None /\ ~scheduler_stop_event

\* Line 818: the scheduler counts as running.
ToggleSeesRunning == SchedulerRunning

\* toggle_scheduler (lines 817-831).
ToggleScheduler ==
    /\ MainIdle
    /\ IF ToggleSeesRunning
       THEN /\ scheduler_stop_event' = TRUE
            /\ status_label' = "Status: Scheduler stopping..."
            /\ UNCHANGED << scheduler_thread, pc >>
       ELSE IF ~calibrated
       THEN /\ status_label' = "Status: Please calibrate first!"
            /\ UNCHANGED << scheduler_stop_event, scheduler_thread, pc >>
       ELSE \E t \in SchedThreads :
              /\ pc[t] = "dead"
              /\ \A u \in SchedThreads : pc[u] = "dead" => t <= u
              /\ scheduler_stop_event' = FALSE
              /\ scheduler_thread' = t
              /\ Goto(t, "started")
              /\ UNCHANGED status_label
    /\ UNCHANGED << calibVars, captureVars, schedule_var, logVars, after_queue, closed >>
    /\ UNCHANGED << logger_obj, vision >>

\* Lines 858-860: the thread reports that it is off and ends.
SchedFinish(t) ==
    /\ IF closed THEN UNCHANGED after_queue ELSE Post("Status: Scheduler Off.")
    /\ Goto(t, "dead")

\* scheduler_loop, lines 834-849: read the selected interval.
SchedStart(t) ==
    /\ pc[t] = "started"
    /\ IF interval_map(schedule_var) = 0
       THEN SchedFinish(t)
       ELSE IF closed
       THEN Goto(t, "dead") /\ UNCHANGED after_queue
       ELSE Post("Status: Auto-logging") /\ Goto(t, "loop")
    /\ UNCHANGED << calibVars, captureVars, status_label, schedVars, logVars, closed >>
    /\ UNCHANGED << logger_obj, vision >>

\* Line 851: the loop condition finds the stop event set.
SchedLoopExit(t) ==
    /\ pc[t] = "loop"
    /\ scheduler_stop_event
    /\ SchedFinish(t)
    /\ UNCHANGED << calibVars, captureVars, status_label, schedVars, logVars, closed >>
    /\ UNCHANGED << logger_obj, vision >>

\* Mutant: the thread sleeps for the interval whatever the event says.
WaitSleepsThrough == FALSE

\* Line 854: what scheduler_stop_event.wait(timeout=...) returns.
WaitReturns == scheduler_stop_event

\* Lines 854-856: wait(timeout) returns, at once when the event is set.
SchedWait(t) ==
    /\ pc[t] = "wait"
    /\ LET stopped == WaitReturns
       IN  IF stopped THEN SchedFinish(t)
           ELSE Goto(t, "loop") /\ UNCHANGED after_queue
    /\ UNCHANGED << calibVars, captureVars, status_label, schedVars, logVars, closed >>
    /\ UNCHANGED << logger_obj, vision >>

(* --------------------------- other callbacks -------------------------- *)
\* The operator picks an entry of the Auto-Log menu.
SelectSchedule ==
    /\ MainIdle
    /\ \E option \in SelectableOptions \ {schedule_var} : schedule_var' = option
    /\ UNCHANGED << calibVars, captureVars, status_label, scheduler_stop_event,
                    scheduler_thread, pc, logVars, after_queue, closed >>
    /\ UNCHANGED << logger_obj, vision >>

\* The event loop runs a callback posted with window.after(0, ...).
ProcessAfter ==
    /\ MainIdle
    /\ after_queue # << >>
    /\ status_label' = Head(after_queue)
    /\ after_queue' = Tail(after_queue)
    /\ UNCHANGED << calibVars, captureVars, schedVars, pc, logVars, closed >>
    /\ UNCHANGED << logger_obj, vision >>

\* on_closing (lines 863-867).
OnClosing ==
    /\ MainIdle
    /\ scheduler_stop_event' = TRUE
    /\ closed' = TRUE
    /\ video_loop_scheduled' = FALSE
    /\ after_queue' = << >>
    /\ Goto(MainThread, "closed")
    /\ UNCHANGED << calibVars, current_frame_raw, current_metrics,
                    measurement_history, status_label, schedule_var,
                    scheduler_thread, logVars >>
    /\ UNCHANGED << logger_obj, vision >>

\* video_loop after the frame was read.
VideoProcess == VideoCalibrate \/ VideoLock \/ VideoMeasure
VideoLoopStep == VideoRead \/ VideoProcess
LogDataThreadStep(t) ==
    LogDataBegin(t) \/ LogPoll(t) \/ LogWindowEnd(t) \/ LogWrite(t)
SchedulerLoopStep(t) == SchedStart(t) \/ SchedLoopExit(t) \/ SchedWait(t)
WorkerStep(w) == WorkerAppend(w) \/ WorkerWake(w)

\* What the operator and the threads other than the capture cycle do.
OtherStep ==
    \/ Recalibrate
    \/ RecalibrateReset
    \/ ToggleScheduler
    \/ SelectSchedule
    \/ ProcessAfter
    \/ OnClosing
    \/ \E t \in Threads : LogDataThreadStep(t)
    \/ \E t \in SchedThreads : SchedulerLoopStep(t)
    \/ \E w \in BagToSet(workers) : WorkerStep(w)

Next == VideoRead \/ VideoProcess \/ OtherStep

Spec == Init /\ [][Next]_vars

\* What the main thread does next once a callback has started.
MainContinues ==
    \/ VideoProcess
    \/ RecalibrateReset
    \/ LogPoll(MainThread) \/ LogWindowEnd(MainThread) \/ LogWrite(MainThread)

\* The capture cycle and the RECALIBRATE button alone, in front of every
\* scene of FrameTable: no logging action and no scheduler, which write
\* none of the variables of the capture cycle.
CaptureNext == ReadFrom(Frames) \/ VideoProcess \/ Recalibrate \/ RecalibrateReset

CaptureSpec == Init /\ [][CaptureNext]_vars

\* The same with a smoothing window of HistoryWindow entries.
HistoryNext ==
    \/ ReadFrom(Frames) \/ VideoCalibrate \/ VideoLock
    \/ MeasureWith(HistoryWindow)
    \/ Recalibrate \/ RecalibrateReset

HistorySpec == Init /\ [][HistoryNext]_vars

\* The program in front of an unchanging scene.
SteadyNext == ReadFrom(SteadyScene) \/ VideoProcess \/ OtherStep

\* The threads of the program keep running: a callback of the main thread
\* runs to its end, the event loop runs the callbacks posted to it whenever
\* it is idle, and a scheduler thread takes its next step. window.after
\* never blocks in the program; the bound on the queue is the model's, hence
\* strong fairness for the steps that post.
FairSpec ==
    /\ Init /\ [][SteadyNext]_vars
    /\ WF_vars(MainContinues)
    /\ SF_vars(ProcessAfter)
    /\ \A t \in SchedThreads : SF_vars(SchedulerLoopStep(t))

(* --------------------- log_data, call by call ------------------------- *)
\* log_data returns: the worker posts the outcome and goes to sleep (lines
\* 807-812).
WorkerReports(w, success) ==
    IF closed
    THEN /\ workers' = Ended(w)
         /\ UNCHANGED after_queue
    ELSE /\ Post(IF success THEN "Status: Logged successfully!"
                 ELSE "Status: Logging FAILED. Check terminal.")
         /\ workers' = Ended(w) (+) SetToBag({Sleeping})

\* The worker at another place of log_data.
WorkerAt(w, where) == Ended(w) (+) SetToBag({[w EXCEPT !.pc = where]})

\* Lines 487-493: the sheet is opened and cell A1 is read, or a call raises.
LogDataOpen(w) ==
    /\ w.pc = "append" /\ BagIn(w, workers)
    /\ \E raised \in BOOLEAN :
         IF raised THEN WorkerReports(w, FALSE)
         ELSE /\ workers' = WorkerAt(w, IF sheet = << >> THEN "header" ELSE "row")
              /\ UNCHANGED after_queue
    /\ UNCHANGED << calibVars, captureVars, status_label, schedVars, pc, loc,
                    sheet, images, closed >>
    /\ UNCHANGED << logger_obj, vision >>

\* Line 495: the header row is appended, or the call raises.
LogDataHeader(w) ==
    /\ w.pc = "header" /\ BagIn(w, workers)
    /\ \E raised \in BOOLEAN :
         IF raised \/ Len(sheet) >= SheetCapacity
         THEN WorkerReports(w, FALSE) /\ UNCHANGED sheet
         ELSE /\ sheet' = Append(sheet, "header")
              /\ workers' = WorkerAt(w, "row")
              /\ UNCHANGED after_queue
    /\ UNCHANGED << calibVars, captureVars, status_label, schedVars, pc, loc,
                    images, closed >>
    /\ UNCHANGED << logger_obj, vision >>

\* Lines 497-499: the data row is appended, or the call raises.
LogDataRow(w) ==
    /\ w.pc = "row" /\ BagIn(w, workers)
    /\ \E raised \in BOOLEAN :
         IF raised \/ Len(sheet) >= SheetCapacity
         THEN WorkerReports(w, FALSE) /\ UNCHANGED sheet
         ELSE /\ sheet' = Append(sheet, "data")
              /\ WorkerReports(w, TRUE)
    /\ UNCHANGED << calibVars, captureVars, status_label, schedVars, pc, loc,
                    images, closed >>
    /\ UNCHANGED << logger_obj, vision >>

\* The program in front of an unchanging scene, with the calls log_data
\* makes taken one by one; the window stays open and the calibration is
\* left alone.
SheetNext ==
    \/ ReadFrom(SteadyScene) \/ VideoProcess
    \/ ToggleScheduler
    \/ SelectSchedule
    \/ ProcessAfter
    \/ \E t \in Threads : LogDataThreadStep(t)
    \/ \E t \in SchedThreads : SchedulerLoopStep(t)
    \/ \E w \in BagToSet(workers) : LogDataOpen(w)
    \/ \E w \in BagToSet(workers) : LogDataHeader(w)
    \/ \E w \in BagToSet(workers) : LogDataRow(w)
    \/ \E w \in BagToSet(workers) : WorkerWake(w)

SheetSpec == Init /\ [][SheetNext]_vars

(* ------------------------- GoogleSheetsLogger ------------------------- *)
\* Bound: the rows the worksheet holds, the header row included.
WorksheetRows == 3

\* What a caller passes for stem_mm, leaf_mm and largest_leaf_mm: None, 0,
\* a positive number or a str.
ArgValues == {"None", "zero", "number", "text"}
\* Python's truth value of an argument.
Truthy(v) == v \in {"number", "text"}
\* round(v, 2) if v else "" (lines 178-180): round raises for a str.
RoundRaises(v) == Truthy(v) /\ v = "text"
\* f"{v:.2f}" (line 191) raises for None and for a str.
FormatRaises(v) == v \in {"None", "text"}
\* What worksheet.append_row does (line 188).
AppendOutcomes == {"appended", "APIError", "Exception"}

\* GoogleSheetsLogger.__init__ before its call of _connect, in front of a
\* worksheet that holds the given rows.
NewLogger(cells) ==
    [worksheet |-> FALSE, cells |-> cells, returned |-> "None",
     args |-> << "None", "None", "None" >>,
     connect_call |-> "none", append_call |-> FALSE,
     raised |-> "none", raised_before |-> "none"]

\* _connect and _initialize_headers: the worksheet is reached or not; a
\* reached worksheet whose cell A1 is empty gets the header row unless a
\* call of _initialize_headers raises, which is only logged.
connect(self, reached, headers) ==
    IF ~reached THEN self
    ELSE [self EXCEPT !.worksheet = TRUE,
                      !.cells = IF self.cells = << >> /\ headers
                                THEN << "header" >> ELSE self.cells]

\* Mutant: the handler of a non-API exception leaves the handle in place.
HandleAfterExceptionKept(self) == self.worksheet

\* Line 205: self.worksheet = None.
HandleAfterException(self) == FALSE

\* The data rows among the rows of a worksheet.
DataRows(cells) == Cardinality({i \in 1 .. Len(cells) : cells[i] = "data"})

\* log_data_method (lines 144-206), one call. Besides the state of the
\* logger the record keeps what the last call did: whether it called
\* _connect and with what result, whether it called append_row, and the
\* exception it caught, with the exception the call before it caught.
log_data_method(stem_mm, leaf_mm, largest_leaf_mm, reached, headers, outcome) ==
    LET self == [logger_obj EXCEPT
                     !.args = << stem_mm, leaf_mm, largest_leaf_mm >>,
                     !.connect_call = "none", !.append_call = FALSE,
                     !.raised = "none", !.raised_before = logger_obj.raised]
        connected == IF self.worksheet THEN self
                     ELSE [connect(self, reached, headers) EXCEPT
                               !.connect_call = IF reached THEN "connected"
                                                ELSE "failed"]
        row_raises == \/ RoundRaises(stem_mm) \/ RoundRaises(leaf_mm)
                      \/ RoundRaises(largest_leaf_mm)
        called == [connected EXCEPT !.append_call = TRUE]
        appended == [called EXCEPT !.cells = Append(@, "data")]
        Caught(obj) == [obj EXCEPT !.worksheet = HandleAfterException(obj),
                                   !.raised = "Exception",
                                   !.returned = "False"]
    IN  /\ Len(logger_obj.cells) < WorksheetRows
        /\ logger_obj' =
             IF ~connected.worksheet
             THEN [connected EXCEPT !.returned = "False"]
             ELSE IF row_raises THEN Caught(connected)
             ELSE IF outcome = "Exception" THEN Caught(called)
             ELSE IF outcome = "APIError"
             THEN [called EXCEPT !.raised = "APIError", !.returned = "False"]
             ELSE IF FormatRaises(stem_mm) \/ FormatRaises(leaf_mm)
             THEN Caught(appended)
             ELSE [appended EXCEPT !.returned = "True"]
        /\ UNCHANGED << appVars, vision >>

\* A GoogleSheetsLogger was created in front of an empty worksheet or of
\* one that has its header row.
LoggerInit ==
    /\ AppInit
    /\ vision = None
    /\ \E cells \in {<< >>, << "header" >>}, reached, headers \in BOOLEAN :
           logger_obj = connect(NewLogger(cells), reached, headers)

\* The callers of the logger.
LoggerNext ==
    \E stem_mm, leaf_mm, largest_leaf_mm \in ArgValues,
       reached, headers \in BOOLEAN, outcome \in AppendOutcomes :
        log_data_method(stem_mm, leaf_mm, largest_leaf_mm, reached, headers, outcome)

LoggerSpec == LoggerInit /\ [][LoggerNext]_vars

(* -------------------------- vision functions -------------------------- *)
\* Bound: the calls of find_pixels_per_mm on one frame.
MaxCalls == 2
\* The columns the drawn box adds to a reference contour that is clear of
\* the border of the image: the line through x + w, and what the thickness
\* of the lines adds on either side.
BoxGrowths == 1 .. 3
\* Bounds a configuration gives to the second plant range.
LowerChoices == {<< 0, 0, 0 >>, << 0, 150, 210 >>}
UpperChoices == {<< 0, 0, 0 >>, << 10, 255, 255 >>}

\* A frame in the hands of a caller of the vision functions, with a
\* configuration of the second plant range.
VisionInit ==
    /\ AppInit
    /\ logger_obj = None
    /\ \E frame \in Frames, lower_2 \in LowerChoices, upper_2 \in UpperChoices :
           vision = [content |-> FrameTable[frame],
                     lower_2 |-> lower_2, upper_2 |-> upper_2,
                     ratios |-> << >>, segmented |-> FALSE, contours |-> << >>]

\* One call of find_pixels_per_mm(frame) (lines 514-537) on the frame.
CallFindPixelsPerMm ==
    /\ Len(vision.ratios) < MaxCalls
    /\ \E widen \in BoxGrowths :
           vision' = [vision EXCEPT
                          !.ratios = Append(@, pixels_per_mm_of(vision.content)),
                          !.content = DrawRefBox(@, widen)]
    /\ UNCHANGED << appVars, logger_obj >>

\* One call of find_plant_contours(frame) (lines 539-560) on the frame.
CallFindPlantContours ==
    /\ ~vision.segmented
    /\ vision' = [vision EXCEPT
                      !.segmented = TRUE,
                      !.contours = valid_contours(vision.content,
                                                  vision.lower_2, vision.upper_2)]
    /\ UNCHANGED << appVars, logger_obj >>

VisionNext == CallFindPixelsPerMm \/ CallFindPlantContours

VisionSpec == VisionInit /\ [][VisionNext]_vars

(* ======================= properties of the program ==================== *)

\* The log worker started by the step from the current state.
IsNewWorker(w) ==
    /\ w \in BagToSet(workers')
    /\ CopiesIn(w, workers') > (IF BagIn(w, workers) THEN CopiesIn(w, workers) ELSE 0)

SameMetrics(w, m) ==
    /\ RatEq(w.height, m.height)
    /\ w.count = m.count
    /\ RatEq(w.area, m.area)

\* C1: whenever the calibration is locked, pixels_per_mm is positive.
C1_LockedHasScale == calibrated => pixels_per_mm.n > 0 /\ pixels_per_mm.d > 0

C1_Witness ==
    /\ calibrated
    /\ pc[MainThread] = "idle"
    /\ current_metrics.area.n > 0
    /\ measurement_history # << >>

\* C2: the values handed to the append call are the height, count and area
\* of one candidate collected in the action's own window, and no step of
\* log_data_thread changes the measurement history.
C2_LoggedIsRawSample ==
    [][\A t \in Threads :
          /\ LogWrite(t) =>
               \E i \in 1 .. Len(loc[t].all_measurements) :
                   \A w \in BagToSet(workers') :
                       IsNewWorker(w) => SameMetrics(w, loc[t].all_measurements[i][1])
          /\ LogDataThreadStep(t) => measurement_history' = measurement_history]_vars

\* A worker holds values that differ from what the history would average to.
C2_Witness ==
    \E w \in BagToSet(workers) :
        /\ w.pc = "append"
        /\ w.area.n > 0
        /\ measurement_history # << >>
        /\ ~RatEq(WindowedAverage(measurement_history).area, w.area)

\* C3: the candidate chosen for logging has the greatest area of the window
\* and is the earliest candidate with that area.
C3_BestIsEarliestMax ==
    \A t \in Threads :
        pc[t] = "ldt_write" =>
            LET all == loc[t].all_measurements
            IN  \E i \in 1 .. Len(all) :
                    /\ all[i] = loc[t].best_measurement
                    /\ \A j \in 1 .. Len(all) : ~RatLess(all[i][1].area, all[j][1].area)
                    /\ \A j \in 1 .. (i - 1) : RatLess(all[j][1].area, all[i][1].area)

\* Two different candidates tie for the greatest area; the first was chosen.
C3_Witness ==
    \E t \in Threads :
        /\ pc[t] = "ldt_write"
        /\ Len(loc[t].all_measurements) >= 2
        /\ loc[t].all_measurements[1] # loc[t].all_measurements[2]
        /\ RatEq(loc[t].all_measurements[1][1].area, loc[t].all_measurements[2][1].area)
        /\ loc[t].all_measurements[1][1].area.n > 0
        /\ loc[t].best_measurement = loc[t].all_measurements[1]

\* Sampling windows under way plus append calls under way.
ActionsInFlight ==
    Cardinality({t \in Threads : InPass(t)})
    + BagCardinality([w \in {v \in BagToSet(workers) : v.pc = "append"} |-> workers[w]])

\* C4: at most one sampling/logging action is in flight at any time.
C4_AtMostOneInFlight == ActionsInFlight <= 1

\* C5: while a sampling pass is in progress the capture cycle can take its
\* next step (unless the window was closed or another button callback is
\* just running).
C5_CaptureNeverBlocked ==
    \A t \in Threads :
        (InPass(t) /\ ~closed /\ pc[MainThread] # "recal") => ENABLED VideoLoopStep

LogOutcomeTexts == {"Status: Logged successfully!",
                    "Status: Logging FAILED. Check terminal."}

\* C6: the append call always runs on a thread started for it, never on the
\* main thread or a scheduler thread, it changes neither the status label
\* nor the position of another thread, and its outcome reaches the status
\* label only through a callback taken from the Tk queue.
C6_AppendOffCaptureCadence ==
    /\ [](\A w \in BagToSet(workers) : w.runs_on \notin Threads)
    /\ [][/\ \A w \in BagToSet(workers) :
               WorkerAppend(w) => UNCHANGED << status_label, pc >>
          /\ (status_label' \in LogOutcomeTexts /\ status_label' # status_label) =>
               /\ after_queue # << >>
               /\ status_label' = Head(after_queue)
               /\ after_queue' = Tail(after_queue)]_vars

\* The capture cycle is in the middle of a frame while an append call runs,
\* and an earlier outcome is on the status label.
C6_Witness ==
    /\ \E w \in BagToSet(workers) : w.pc = "append"
    /\ pc[MainThread] = "vl_measure"
    /\ sheet # << >>

\* C7: at most one scheduler thread is alive at any time.
C7_OneSchedulerThread == Cardinality({t \in SchedThreads : is_alive(t)}) <= 1

\* A stop was requested and the stopped thread has not exited yet.
C7_Witness ==
    /\ scheduler_stop_event
    /\ SchedulerRunning
    /\ InPass(scheduler_thread)
    /\ status_label = "Status: Scheduler stopping..."

\* C8: once the stop event is set while a scheduler thread waits between
\* ticks, the thread's next step is its exit (it triggers no logging action
\* and does not go round the loop again), and under fairness the thread
\* eventually is no longer alive.
C8_StopDuringWaitEndsThread ==
    /\ [][\A t \in SchedThreads :
            (pc[t] = "wait" /\ scheduler_stop_event) =>
                /\ pc'[t] \in {"wait", "dead"}
                /\ scheduler_stop_event']_vars
    /\ \A t \in SchedThreads :
          (pc[t] = "wait" /\ scheduler_stop_event) ~> ~is_alive(t)

\* The operator has pressed Stop Schedule while the thread was waiting.
C8_Witness ==
    /\ ~closed
    /\ scheduler_stop_event
    /\ status_label = "Status: Scheduler stopping..."
    /\ \E t \in SchedThreads : pc[t] = "wait" /\ scheduler_thread = t

\* C9: a scheduler thread becomes active only by a start request made while
\* the calibration is locked and an interval is selected.
C9_StartNeedsCalibrationAndInterval ==
    [][\A t \in SchedThreads :
          (~is_alive(t) /\ is_alive(t)') =>
              (calibrated /\ interval_map(schedule_var) # 0)]_vars

\* C10: a logging action triggered while the calibration is not locked ends
\* at once: no candidate, no image, no log worker, no row; only the status.
C10_UncalibratedLogOnlyReports ==
    [][\A t \in Threads :
          (LogDataBegin(t) /\ ~calibrated) =>
              /\ UNCHANGED << loc, images, workers, sheet >>
              /\ ~InPass(t)'
              /\ \/ status_label' = "Status: Please calibrate first!"
                 \/ UiRaises(t)]_vars

\* A scheduler tick found the calibration unlocked and went on to wait.
C10_Witness ==
    /\ ~calibrated
    /\ status_label = "Status: Please calibrate first!"
    /\ \E t \in SchedThreads : pc[t] = "wait"

\* C11: while the window exists, a sampling window that ends with no
\* candidate ends the logging action with the failure status: no image is
\* written, no log worker is started, no row is added, and the thread goes
\* back to its caller: the main thread to the event loop, a scheduler thread
\* to the wait for its next interval, still alive.
C11_EmptyWindowFailsCleanly ==
    [][\A t \in Threads :
          (LogWindowEnd(t) /\ loc[t].all_measurements = << >> /\ ~UiRaises(t)) =>
              /\ status_label' = "Status: Analysis failed (no frames)."
              /\ UNCHANGED << images, workers, sheet, schedVars >>
              /\ pc'[t] = (IF t = MainThread THEN "idle" ELSE "wait")
              /\ \A u \in Threads \ {t} : pc'[u] = pc[u]]_vars

\* A scheduler tick has just ended with no candidate and the thread waits.
C11_Witness ==
    /\ ~closed
    /\ status_label = "Status: Analysis failed (no frames)."
    /\ SchedulerRunning
    /\ pc[scheduler_thread] = "wait"
    /\ workers = EmptyBag
    /\ sheet = << >>

\* video_loop is running: its next call is scheduled or a call is under way.
VideoPcs == {"vl_calibrate", "vl_lock", "vl_measure"}
CaptureLoopRunning == video_loop_scheduled \/ pc[MainThread] \in VideoPcs

\* C12: a cycle whose read fails leaves the raw frame, the current metrics,
\* the history and the calibration as they were and schedules video_loop
\* again; and until on_closing the capture loop is always running, whatever
\* the reads, the appends and the other threads do.
C12_FailedReadRetries ==
    /\ [](~closed => CaptureLoopRunning)
    /\ [][(VideoRead /\ pc'[MainThread] = "idle") =>
              /\ UNCHANGED << current_frame_raw, current_metrics,
                              measurement_history, calibrated, pixels_per_mm >>
              /\ status_label' = "Error: Webcam feed lost."
              /\ video_loop_scheduled']_vars

\* A read has failed in a calibrated application: the earlier frame, metrics
\* and history are still there and the next attempt is scheduled.
C12_Witness ==
    /\ status_label = "Error: Webcam feed lost."
    /\ video_loop_scheduled
    /\ calibrated
    /\ current_frame_raw # None
    /\ current_metrics.area.n > 0
    /\ measurement_history # << >>

\* C13: a capture cycle that ends with the calibration not locked
\* publishes the zero measurement and leaves pixels_per_mm at 0, and a cycle
\* that starts with the calibration not locked runs find_pixels_per_mm on
\* its frame: it goes on to lock exactly when a scale is found.
C13_UnlockedCyclePublishesZero ==
    [][/\ (VideoMeasure /\ ~calibrated) =>
              /\ current_metrics' = ZeroMetrics
              /\ pixels_per_mm = RatZero /\ pixels_per_mm' = RatZero
              /\ ~calibrated'
              /\ video_loop_scheduled'
       /\ (VideoCalibrate /\ ~calibrated) =>
              LET found == find_pixels_per_mm(current_frame_raw)
              IN  IF found.n > 0
                  THEN pixels_per_mm' = found /\ pc'[MainThread] = "vl_lock"
                  ELSE pixels_per_mm' = RatZero /\ pc'[MainThread] = "vl_measure"]_vars

\* A cycle has ended unlocked on a frame that shows a plant and no reference
\* object, after an earlier calibration was cleared.
C13_Witness ==
    /\ ~calibrated
    /\ pc[MainThread] = "idle"
    /\ current_frame_raw = 4
    /\ find_plant_contours(current_frame_raw) # << >>
    /\ status_label = "Status: Cannot find BLUE reference object."
    /\ current_metrics = ZeroMetrics
    /\ measurement_history = << ZeroMetrics >>
    /\ pixels_per_mm = RatZero

\* The append calls that are still to be made.
Appending == BagCardinality([w \in {v \in BagToSet(workers) : v.pc = "append"} |->
                                 workers[w]])

\* C14: while the window exists, an append call that fails is the worker's
\* only one (the worker goes on to its sleep, nothing calls log_data again
\* for it), the failure status is posted to the event loop, and the
\* calibration, the current metrics, the history, the scheduler's variables
\* and every thread's position are as before, so that a running scheduler
\* goes on with its ticks.
C14_FailedAppendIsReportedOnce ==
    [][\A w \in BagToSet(workers) :
          (WorkerAppend(w) /\ sheet' = sheet /\ ~closed) =>
              /\ after_queue' =
                     Append(after_queue, "Status: Logging FAILED. Check terminal.")
              /\ Appending' = Appending - 1
              /\ BagCardinality(workers') = BagCardinality(workers)
              /\ UNCHANGED << calibVars, captureVars, schedVars, pc, loc >>]_vars

\* The failure is on the status label, nothing was written, and the running
\* scheduler is in the window of a later tick.
C14_Witness ==
    /\ status_label = "Status: Logging FAILED. Check terminal."
    /\ sheet = << >>
    /\ Appending = 0
    /\ SchedulerRunning /\ ~scheduler_stop_event
    /\ pc[scheduler_thread] = "ldt_window"
    /\ calibrated /\ measurement_history # << >>

\* C15: a logging action never writes its image under a name that another
\* logging action has used: no file was written while the window of the
\* writing thread was open, which is the only time a file of the same
\* second can come from.
C15_DistinctImageNames ==
    [][\A t \in Threads : LogWrite(t) => t \notin images.racing]_vars

\* C16: the history never holds more entries than the smoothing window,
\* and a capture cycle appends its metrics at the end, after dropping the
\* oldest entry when the window is full; the other entries stay in order.
C16_HistoryIsBoundedFifo ==
    /\ [](Len(measurement_history) <= HistoryWindow)
    /\ [][MeasureWith(HistoryWindow) =>
              measurement_history' =
                  (IF Len(measurement_history) = HistoryWindow
                   THEN Tail(measurement_history)
                   ELSE measurement_history) \o << current_metrics' >>]_vars

\* The window is full of three different measurements, the newest one last.
C16_Witness ==
    /\ Len(measurement_history) = HistoryWindow
    /\ pc[MainThread] = "idle"
    /\ measurement_history[HistoryWindow] = current_metrics
    /\ \A i, j \in 1 .. HistoryWindow :
           i # j => measurement_history[i] # measurement_history[j]

\* The scale p doubled.
Doubled(p) == Rat(2 * p.n, p.d)
\* The pixel areas of the contours find_plant_contours keeps in a frame.
PixelAreas(frame) ==
    LET kept == find_plant_contours(frame)
    IN  [i \in 1 .. Len(kept) |-> kept[i].area]

\* C17: the area a calibrated capture cycle publishes is the sum of the pixel
\* areas of the kept contours divided by the square of pixels_per_mm, and
\* under twice the scale the same frame measures exactly a quarter of it.
C17_AreaIsQuadraticInScale ==
    [][(VideoMeasure /\ calibrated) =>
          LET a == current_metrics'.area
              p == pixels_per_mm
          IN  /\ a.d > 0 /\ p.n > 0
              /\ a.n * p.n * p.n = SumSeq(PixelAreas(current_frame_raw)) * p.d * p.d * a.d
              /\ RatEq(Rat(4 * MeasureFrame(current_frame_raw, Doubled(p)).area.n,
                           MeasureFrame(current_frame_raw, Doubled(p)).area.d), a)]_vars

\* 400 px^2 measured at 4 px/mm: 25 mm^2.
C17_Witness ==
    /\ calibrated
    /\ pc[MainThread] = "idle"
    /\ RatEq(pixels_per_mm, Rat(4, 1))
    /\ SumSeq(PixelAreas(current_frame_raw)) = 400
    /\ RatEq(current_metrics.area, Rat(25, 1))

\* The first and last row of the kept contours of a frame, taken together.
UnionHeight(frame) ==
    LET kept == find_plant_contours(frame)
        idx == 1 .. Len(kept)
    IN  SetMax({kept[i].bottom : i \in idx}) - SetMin({kept[i].top : i \in idx}) + 1

\* C18: when contours are kept, the height a calibrated capture cycle
\* publishes is the height of the one box around all of them divided by
\* pixels_per_mm, and under twice the scale the same frame measures half.
C18_HeightIsUnionBoxOverScale ==
    [][(VideoMeasure /\ calibrated /\ find_plant_contours(current_frame_raw) # << >>) =>
          LET h == current_metrics'.height
              p == pixels_per_mm
          IN  /\ h.d > 0 /\ p.n > 0
              /\ h.n * p.n = UnionHeight(current_frame_raw) * p.d * h.d
              /\ RatEq(Rat(2 * MeasureFrame(current_frame_raw, Doubled(p)).height.n,
                           MeasureFrame(current_frame_raw, Doubled(p)).height.d), h)]_vars

\* Two overlapping contours of 50 and 70 rows that span 100 rows, at
\* 2 px/mm: 50 mm, not 60.
C18_Witness ==
    /\ calibrated
    /\ pc[MainThread] = "idle"
    /\ RatEq(pixels_per_mm, Rat(2, 1))
    /\ Len(find_plant_contours(current_frame_raw)) = 2
    /\ UnionHeight(current_frame_raw) = 100
    /\ RatEq(current_metrics.height, Rat(50, 1))
    /\ ~RatEq(current_metrics.height,
              MeasureFrameSumHeights(current_frame_raw, pixels_per_mm).height)

\* C19: a call of log_data returns True exactly when it appended the data
\* row, and a call that appended the row keeps the worksheet handle.
C19_TrueIffRowAppended ==
    [][LET added == DataRows(logger_obj'.cells) = DataRows(logger_obj.cells) + 1
       IN  /\ (logger_obj'.returned = "True") <=> added
           /\ added => logger_obj'.worksheet]_vars

\* C20: while the calibration is locked, every step other than the
\* RECALIBRATE button keeps the lock and pixels_per_mm, and no capture cycle
\* takes the branch that assigns a scale, whatever frame it reads.
C20_LockedScaleIsKept ==
    [][(calibrated /\ ~Recalibrate) =>
          /\ calibrated'
          /\ pixels_per_mm' = pixels_per_mm
          /\ pc'[MainThread] # "vl_lock"]_vars

\* Locked at 2 px/mm, a cycle has measured a frame whose reference object
\* alone would give 4 px/mm.
C20_Witness ==
    /\ calibrated
    /\ pc[MainThread] = "idle"
    /\ RatEq(pixels_per_mm, Rat(2, 1))
    /\ current_frame_raw # None
    /\ RatEq(find_pixels_per_mm(current_frame_raw), Rat(4, 1))
    /\ current_metrics = MeasureFrame(current_frame_raw, pixels_per_mm)

\* A history entry is the zero measurement or the measurement of some
\* frame under the scale in force.
UnderCurrentScale(m) ==
    \/ m = ZeroMetrics
    \/ /\ pixels_per_mm.n > 0
       /\ \E frame \in Frames : m = MeasureFrame(frame, pixels_per_mm)

\* C21: recalibrate clears the lock, then sets pixels_per_mm to 0 and
\* empties the history; the next capture cycle calls find_pixels_per_mm
\* again, and the history never holds a measurement taken under a scale
\* other than the one in force.
C21_RecalibrateResetsScaleAndHistory ==
    /\ [](\A i \in 1 .. Len(measurement_history) :
              UnderCurrentScale(measurement_history[i]))
    /\ [][/\ Recalibrate => ~calibrated' /\ pc'[MainThread] = "recal"
          /\ RecalibrateReset =>
                /\ ~calibrated' /\ pixels_per_mm' = RatZero
                /\ measurement_history' = << >>
                /\ pc'[MainThread] = "idle"
          /\ (VideoCalibrate /\ pixels_per_mm = RatZero) =>
                ((pc'[MainThread] = "vl_lock")
                    <=> (find_pixels_per_mm(current_frame_raw).n > 0))]_vars

\* recalibrate has run after a measurement under a scale was published.
C21_Witness ==
    /\ pc[MainThread] = "idle"
    /\ status_label = "Status: Recalibrating..."
    /\ ~calibrated
    /\ pixels_per_mm = RatZero
    /\ measurement_history = << >>
    /\ current_metrics # ZeroMetrics

\* What the cycle that has just run shows in lbl_height, lbl_count and
\* lbl_area, before formatting.
ShownAverage == WindowedAverage(measurement_history)

\* The fraction a is the sum of the fractions of s divided by their number.
IsMeanOf(a, s) ==
    LET total == RatSum(s)
        r == Reduced(a)
    IN  r.d > 0 /\ r.n * total.d * Len(s) = total.n * r.d

\* C25: the average of each field is the sum of that field over the
\* entries of the history divided by their number; a history of identical
\* entries averages to that entry and an empty history to zero.
C25_AverageIsMeanOfHistory ==
    LET h == measurement_history
        idx == 1 .. Len(h)
    IN  /\ h = << >> =>
              /\ ShownAverage.height = RatZero
              /\ ShownAverage.count = RatZero
              /\ ShownAverage.area = RatZero
        /\ h # << >> =>
              /\ IsMeanOf(ShownAverage.height, [i \in idx |-> h[i].height])
              /\ IsMeanOf(ShownAverage.count, [i \in idx |-> Rat(h[i].count, 1)])
              /\ IsMeanOf(ShownAverage.area, [i \in idx |-> h[i].area])
        /\ (h # << >> /\ \A i \in idx : h[i] = h[1]) =>
              /\ RatEq(ShownAverage.height, h[1].height)
              /\ RatEq(ShownAverage.count, Rat(h[1].count, 1))
              /\ RatEq(ShownAverage.area, h[1].area)

\* Two equal measurements of a plant in the history, below a full window.
C25_Witness ==
    /\ pc[MainThread] = "idle"
    /\ Len(measurement_history) = 2
    /\ measurement_history[1] = measurement_history[2]
    /\ measurement_history[1].count > 0
    /\ RatEq(ShownAverage.area, measurement_history[1].area)

\* Entries that differ: the average lies strictly between them.
C25_WitnessMixed ==
    /\ Len(measurement_history) = HistoryWindow
    /\ \E i, j \in 1 .. HistoryWindow :
          /\ RatLess(measurement_history[i].height, ShownAverage.height)
          /\ RatLess(ShownAverage.height, measurement_history[j].height)

\* The patches of a frame the shipped mask selects whose area is at least
\* the threshold.
AtLeastThreshold(frame) ==
    LET plant == FrameTable[frame].plant
    IN  {i \in 1 .. Len(plant) :
            /\ InMask(plant[i].hsv, PLANT_LOWER_2, PLANT_UPPER_2)
            /\ plant[i].area >= MIN_LEAF_AREA_PIXELS}

\* C23: find_plant_contours keeps exactly the contours of area at least
\* MIN_LEAF_AREA_PIXELS, so a measuring capture cycle counts each of them,
\* one of exactly that area included, as a leaf.
C23_KeepsContoursAtThreshold ==
    [][(VideoMeasure /\ Measuring) =>
          /\ Len(find_plant_contours(current_frame_raw))
                = Cardinality(AtLeastThreshold(current_frame_raw))
          /\ current_metrics'.count
                = Cardinality(AtLeastThreshold(current_frame_raw))]_vars

\* The patches a mask selects in which a range takes part unless both of
\* its bounds are the zero vector.
SelectedUnlessBothZero(content, lower_2, upper_2) ==
    LET used == ~(AllZero(lower_2) /\ AllZero(upper_2))
    IN  SelectSeq(content.plant,
                  LAMBDA c : /\ \/ InRange(c.hsv, PLANT_LOWER_1, PLANT_UPPER_1)
                                \/ used /\ InRange(c.hsv, lower_2, upper_2)
                             /\ ValidContour(c))

\* C22: the second plant range takes part in the mask exactly when its
\* bounds are not both the zero vector, so find_plant_contours returns the
\* patches of either range above the noise threshold.
C22_RangeUsedUnlessBothBoundsZero ==
    [][CallFindPlantContours =>
          vision'.contours = SelectedUnlessBothZero(vision.content,
                                                    vision.lower_2,
                                                    vision.upper_2)]_vars

\* C24: a call of find_pixels_per_mm on a frame returns what the call
\* before it on that frame returned.
C24_CalibrateIsIdempotent ==
    [][(CallFindPixelsPerMm /\ vision.ratios # << >>) =>
          RatEq(vision'.ratios[Len(vision'.ratios)],
                vision.ratios[Len(vision.ratios)])]_vars

\* C28: a call that caught a non-API exception leaves no handle; a call
\* that finds no handle calls _connect, and if that fails it returns False
\* without calling append_row and without a handle; a call that caught an
\* API error keeps the handle, and a call that finds a handle calls
\* append_row (once the row is built) without calling _connect.
C28_ReconnectProtocol ==
    [][LET before == logger_obj
           after == logger_obj'
       IN  /\ after.raised = "Exception" => ~after.worksheet
           /\ ~before.worksheet => after.connect_call # "none"
           /\ (~before.worksheet /\ after.connect_call = "failed") =>
                 /\ after.returned = "False"
                 /\ ~after.append_call
                 /\ ~after.worksheet
                 /\ after.cells = before.cells
           /\ after.append_call =>
                 (before.worksheet \/ after.connect_call = "connected")
           /\ after.raised = "APIError" => after.worksheet
           /\ before.worksheet => after.connect_call = "none"
           /\ (before.worksheet /\ after.args \in {"None", "zero", "number"}
                                                  \X {"None", "zero", "number"}
                                                  \X {"None", "zero", "number"}) =>
                 after.append_call]_vars

\* A call caught a non-API exception, and the call after it reconnected and
\* appended its row.
C28_Witness ==
    /\ logger_obj.raised_before = "Exception"
    /\ logger_obj.connect_call = "connected"
    /\ logger_obj.append_call
    /\ logger_obj.returned = "True"
    /\ logger_obj.worksheet

\* A call caught an API error, and the call after it appended its row with
\* the handle it found.
C28_WitnessApiError ==
    /\ logger_obj.raised_before = "APIError"
    /\ logger_obj.connect_call = "none"
    /\ logger_obj.returned = "True"

\* The scales a calibration can lock.
Scales == {find_pixels_per_mm(frame) : frame \in Frames} \ {RatZero}

\* The measurement is one a capture cycle can have computed from the
\* frame: the zero measurement of a cycle that did not measure, or the
\* measurement of the frame under a scale.
ComputedFrom(metrics, frame) ==
    \/ metrics = ZeroMetrics
    \/ \E ppm \in Scales : metrics = MeasureFrame(frame, ppm)

\* C26: every candidate a sampling pass on a scheduler thread has collected
\* holds a frame together with a measurement computed from that frame.
C26_SampleHoldsFrameWithItsMeasurement ==
    \A t \in SchedThreads :
        \A i \in 1 .. Len(loc[t].all_measurements) :
            ComputedFrom(loc[t].all_measurements[i][1],
                         loc[t].all_measurements[i][2])

\* C27: the sheet holds at most one header row, and it is the first row.
C27_HeaderOnceAndFirst ==
    \A i \in 1 .. Len(sheet) : sheet[i] = "header" => i = 1

====
